---- MODULE Spec2Model ----
(***************************************************************************)
(* Model of skills/docker-image-accelerator/scripts/accelerate_docker_pull.py *)
(* An image reference (a Python str) is a sequence of one-character        *)
(* strings, so that split, startswith and the '.'/':' tests are computed.  *)
(***************************************************************************)
EXTENDS Integers, Sequences, FiniteSets, TLC

VARIABLES images, pc, i, normalized_image, mirror_image, target_image, ret,
          calls, results, success_count, failed_count, exit_code, store, cmds, out

vars == <<images, pc, i, normalized_image, mirror_image, target_image, ret,
          calls, results, success_count, failed_count, exit_code, store, cmds, out>>

(* ---- bounds ---- *)
MaxLen == 4
MaxBatch == 2

(* ---- string literals of the source ---- *)
DockerIoLibrary == <<"d","o","c","k","e","r",".","i","o","/","l","i","b","r","a","r","y","/">>
DockerIoSlash == <<"d","o","c","k","e","r",".","i","o","/">>
DaoCloudPrefix == <<"m",".","d","a","o","c","l","o","u","d",".","i","o","/">>

(* Python None: a one-element sequence no str (sequence of characters) equals *)
None == <<"None">>

REGISTRY_MIRRORS ==
     <<"d","o","c","k","e","r",".","i","o">>
     :> <<"m",".","d","a","o","c","l","o","u","d",".","i","o","/","d","o","c","k","e","r",".","i","o">>
  @@ <<"g","c","r",".","i","o">>
     :> <<"m",".","d","a","o","c","l","o","u","d",".","i","o","/","g","c","r",".","i","o">>
  @@ <<"g","h","c","r",".","i","o">>
     :> <<"m",".","d","a","o","c","l","o","u","d",".","i","o","/","g","h","c","r",".","i","o">>
  @@ <<"k","8","s",".","g","c","r",".","i","o">>
     :> <<"m",".","d","a","o","c","l","o","u","d",".","i","o","/","k","8","s",".","g","c","r",".","i","o">>
  @@ <<"r","e","g","i","s","t","r","y",".","k","8","s",".","i","o">>
     :> <<"m",".","d","a","o","c","l","o","u","d",".","i","o","/","r","e","g","i","s","t","r","y",".","k","8","s",".","i","o">>
  @@ <<"q","u","a","y",".","i","o">>
     :> <<"m",".","d","a","o","c","l","o","u","d",".","i","o","/","q","u","a","y",".","i","o">>
  @@ <<"k","8","s","-","g","c","r",".","m",".","d","a","o","c","l","o","u","d",".","i","o">>
     :> <<"m",".","d","a","o","c","l","o","u","d",".","i","o","/","k","8","s",".","g","c","r",".","i","o">>
  @@ <<"d","o","c","k","e","r",".","m",".","d","a","o","c","l","o","u","d",".","i","o">>
     :> <<"m",".","d","a","o","c","l","o","u","d",".","i","o","/","d","o","c","k","e","r",".","i","o">>
  @@ <<"e","l","a","s","t","i","c",".","m",".","d","a","o","c","l","o","u","d",".","i","o">>
     :> <<"m",".","d","a","o","c","l","o","u","d",".","i","o","/","d","o","c","k","e","r",".","e","l","a","s","t","i","c",".","c","o">>
  @@ <<"g","c","r",".","m",".","d","a","o","c","l","o","u","d",".","i","o">>
     :> <<"m",".","d","a","o","c","l","o","u","d",".","i","o","/","g","c","r",".","i","o">>
  @@ <<"g","h","c","r",".","m",".","d","a","o","c","l","o","u","d",".","i","o">>
     :> <<"m",".","d","a","o","c","l","o","u","d",".","i","o","/","g","h","c","r",".","i","o">>
  @@ <<"k","8","s",".","m",".","d","a","o","c","l","o","u","d",".","i","o">>
     :> <<"m",".","d","a","o","c","l","o","u","d",".","i","o","/","r","e","g","i","s","t","r","y",".","k","8","s",".","i","o">>
  @@ <<"m","c","r",".","m",".","d","a","o","c","l","o","u","d",".","i","o">>
     :> <<"m",".","d","a","o","c","l","o","u","d",".","i","o","/","m","c","r",".","m","i","c","r","o","s","o","f","t",".","c","o","m">>
  @@ <<"n","v","c","r",".","m",".","d","a","o","c","l","o","u","d",".","i","o">>
     :> <<"m",".","d","a","o","c","l","o","u","d",".","i","o","/","n","v","c","r",".","i","o">>
  @@ <<"q","u","a","y",".","m",".","d","a","o","c","l","o","u","d",".","i","o">>
     :> <<"m",".","d","a","o","c","l","o","u","d",".","i","o","/","q","u","a","y",".","i","o">>

(* ---- str helpers (Python semantics) ---- *)
Contains(s, ch) == \E k \in 1..Len(s) : s[k] = ch

startswith(s, prefix) ==
  /\ Len(s) >= Len(prefix)
  /\ SubSeq(s, 1, Len(prefix)) = prefix

FirstIndex(s, ch) == CHOOSE k \in 1..Len(s) : s[k] = ch /\ \A m \in 1..(k-1) : s[m] # ch

(* str.split(sep): always at least one segment *)
RECURSIVE split(_, _)
split(s, sep) ==
  IF ~Contains(s, sep) THEN <<s>>
  ELSE LET j == FirstIndex(s, sep)
       IN <<SubSeq(s, 1, j-1)>> \o split(SubSeq(s, j+1, Len(s)), sep)

(* str.split(sep, 1): at most one split *)
split1(s, sep) ==
  IF ~Contains(s, sep) THEN <<s>>
  ELSE LET j == FirstIndex(s, sep)
       IN <<SubSeq(s, 1, j-1), SubSeq(s, j+1, Len(s))>>

(* truthiness of an Optional[str] *)
Truthy(x) == x # None /\ x # <<>>

(* variant: the ':' test of line 53 is missing *)
normalize_image_name_nocolon(image) ==
  IF ~Contains(image, "/") THEN DockerIoLibrary \o image
  ELSE LET parts == split(image, "/")
       IN IF Len(parts) = 2 /\ ~Contains(parts[1], ".")
          THEN DockerIoSlash \o image
          ELSE image

(* variant: line 51 tests len(parts) >= 2 *)
normalize_image_name_anydepth(image) ==
  IF ~Contains(image, "/") THEN DockerIoLibrary \o image
  ELSE LET parts == split(image, "/")
       IN IF Len(parts) >= 2 /\ ~Contains(parts[1], ".") /\ ~Contains(parts[1], ":")
          THEN DockerIoSlash \o image
          ELSE image

(* ---- NameNormalizer ---- *)
normalize_image_name(image) ==
  IF ~Contains(image, "/") THEN DockerIoLibrary \o image
  ELSE LET parts == split(image, "/")
       IN IF Len(parts) = 2 /\ ~Contains(parts[1], ".") /\ ~Contains(parts[1], ":")
          THEN DockerIoSlash \o image
          ELSE image

(* ---- MirrorResolver ---- *)
(* variant: the lookup of lines 79-81 is missing *)
convert_to_mirror_image_notable(image) ==
  LET parts == split1(image, "/")
  IN IF Len(parts) < 2 THEN None
     ELSE LET registry == parts[1]
              rest == parts[2]
          IN IF startswith(image, DaoCloudPrefix) THEN image
             ELSE DaoCloudPrefix \o image

(* variant: line 81 without the empty-rest case *)
convert_to_mirror_image_slashalways(image) ==
  LET parts == split1(image, "/")
  IN IF Len(parts) < 2 THEN None
     ELSE LET registry == parts[1]
              rest == parts[2]
          IN IF registry \in DOMAIN REGISTRY_MIRRORS
             THEN REGISTRY_MIRRORS[registry] \o <<"/">> \o rest
             ELSE IF startswith(image, DaoCloudPrefix) THEN image
             ELSE DaoCloudPrefix \o image

(* variant: the test of lines 84-85 is missing *)
convert_to_mirror_image_noidem(image) ==
  LET parts == split1(image, "/")
  IN IF Len(parts) < 2 THEN None
     ELSE LET registry == parts[1]
              rest == parts[2]
          IN IF registry \in DOMAIN REGISTRY_MIRRORS
             THEN IF rest # <<>> THEN REGISTRY_MIRRORS[registry] \o <<"/">> \o rest
                                 ELSE REGISTRY_MIRRORS[registry]
             ELSE DaoCloudPrefix \o image

(* variant: line 88 returns None for a registry that is not in the table *)
convert_to_mirror_image_nofallback(image) ==
  LET parts == split1(image, "/")
  IN IF Len(parts) < 2 THEN None
     ELSE LET registry == parts[1]
              rest == parts[2]
          IN IF registry \in DOMAIN REGISTRY_MIRRORS
             THEN IF rest # <<>> THEN REGISTRY_MIRRORS[registry] \o <<"/">> \o rest
                                 ELSE REGISTRY_MIRRORS[registry]
             ELSE IF startswith(image, DaoCloudPrefix) THEN image
             ELSE None

(* variant: an empty rest returns None *)
convert_to_mirror_image_absent(image) ==
  LET parts == split1(image, "/")
  IN IF Len(parts) < 2 THEN None
     ELSE LET registry == parts[1]
              rest == parts[2]
          IN IF rest = <<>> THEN None
             ELSE IF registry \in DOMAIN REGISTRY_MIRRORS
             THEN REGISTRY_MIRRORS[registry] \o <<"/">> \o rest
             ELSE IF startswith(image, DaoCloudPrefix) THEN image
             ELSE DaoCloudPrefix \o image

convert_to_mirror_image(image) ==
  LET parts == split1(image, "/")
  IN IF Len(parts) < 2 THEN None
     ELSE LET registry == parts[1]
              rest == parts[2]
          IN IF registry \in DOMAIN REGISTRY_MIRRORS
             THEN IF rest # <<>> THEN REGISTRY_MIRRORS[registry] \o <<"/">> \o rest
                                 ELSE REGISTRY_MIRRORS[registry]
             ELSE IF startswith(image, DaoCloudPrefix) THEN image
             ELSE DaoCloudPrefix \o image

(* ---- ProcessRunner ---- *)
(* What the child process does: it exits with a code, or it cannot be    *)
(* started at all and subprocess.run raises an OSError.                   *)
ExitCodes == {0, 1}
ProcOutcomes ==
  {[exc |-> "none", code |-> c] : c \in ExitCodes}
    \cup {[exc |-> "FileNotFoundError", code |-> 0]}

(* subprocess.run(command, capture_output=True, text=True, check=check) *)
subprocess_run(command, check, proc) ==
  IF proc.exc # "none" THEN [raised |-> proc.exc, returncode |-> proc.code]
  ELSE IF check /\ proc.code # 0
       THEN [raised |-> "CalledProcessError", returncode |-> proc.code]
       ELSE [raised |-> "none", returncode |-> proc.code]

(* variant: the handler of line 110 returns 0 instead of e.returncode *)
run_command_swallow(command, check, proc) ==
  LET r == subprocess_run(command, check, proc)
  IN IF r.raised = "CalledProcessError"
     THEN [raised |-> "none", returncode |-> 0]
     ELSE r

(* variant: no handler at line 110, CalledProcessError propagates *)
run_command_nocatch(command, check, proc) == subprocess_run(command, check, proc)

run_command(command, check, proc) ==
  LET r == subprocess_run(command, check, proc)
  IN IF r.raised = "CalledProcessError"
     THEN [raised |-> "none", returncode |-> r.returncode]
     ELSE r

pull_image(image, proc) == run_command(<<"docker", "pull">>, TRUE, proc)

tag_image(source, target, proc) == run_command(<<"docker", "tag">>, TRUE, proc)

remove_image(image, proc) == run_command(<<"docker", "rmi">>, FALSE, proc)

(* ---- the container runtime's local image store ---- *)
(* store maps a local tag to the content it points at; the content of a  *)
(* pulled image is identified by the reference it was pulled from.        *)
Untag(st, ref) == [t \in (DOMAIN st) \ {ref} |-> st[t]]

docker(st, op, args, proc) ==
  IF proc.exc # "none" \/ proc.code # 0 THEN st
  ELSE IF op = "pull" THEN (args[1] :> args[1]) @@ st
  ELSE IF op = "tag"
       THEN IF args[1] \in DOMAIN st THEN (args[2] :> st[args[1]]) @@ st ELSE st
  ELSE Untag(st, args[1])

(* ---- inputs ---- *)
(* image arguments used in batches of several images *)
BatchSamples ==
  { <<"r","e","d","i","s",":","7">>,
    <<"g","c","r",".","i","o","/","p","a","u","s","e",":","3",".","1">>,
    <<"l","i","b","r","a","r","y","/","n","g","i","n","x">>,
    <<"m",".","d","a","o","c","l","o","u","d",".","i","o","/","a">> }

(* image arguments of test_conversion.py and of the documented examples *)
TestSamples ==
  { <<"n","g","i","n","x",":","l","a","t","e","s","t">>,
    <<"p","y","t","h","o","n",":","3",".","9","-","s","l","i","m">>,
    <<"k","8","s",".","g","c","r",".","i","o","/","p","a","u","s","e",":","3",".","1">>,
    <<"g","h","c","r",".","i","o","/","a","c","t","i","o","n","s","/","r","u","n","n","e","r",":","l","a","t","e","s","t">>,
    <<"q","u","a","y",".","i","o","/","c","o","r","e","o","s","/","l","a","t","e","s","t",":","l","a","t","e","s","t">>,
    <<"d","o","c","k","e","r",".","i","o","/","l","i","b","r","a","r","y","/","n","g","i","n","x",":","l","a","t","e","s","t">>,
    <<"e","x","a","m","p","l","e",".","c","o","m","/","f","o","o",":","1">>,
    <<"d","o","c","k","e","r",".","i","o","/">>,
    <<"a","/","b","/","c">> }

(* an argument that is the accelerator prefix itself *)
EdgeSamples == { <<"m",".","d","a","o","c","l","o","u","d",".","i","o","/">> }

(* one reference with a repository path and one without, on every registry of the table *)
KeySamples ==
  {k \o <<"/", "x">> : k \in DOMAIN REGISTRY_MIRRORS}
    \cup {k \o <<"/">> : k \in DOMAIN REGISTRY_MIRRORS}

Alphabet == {"a", ".", ":", "/"}

Strings(n) == UNION {[1..k -> Alphabet] : k \in 0..n}

SingleInputs == Strings(MaxLen) \cup TestSamples \cup BatchSamples \cup KeySamples \cup EdgeSamples

(* sys.argv[1:] *)
ArgLists ==
  UNION {[1..n -> BatchSamples] : n \in 0..MaxBatch} \cup {<<r>> : r \in SingleInputs}

Init ==
  /\ images \in ArgLists
  /\ pc = "main"
  /\ i = 0
  /\ normalized_image = None
  /\ mirror_image = None
  /\ target_image = None
  /\ ret = FALSE
  /\ calls = <<>>
  /\ results = <<>>
  /\ success_count = 0
  /\ failed_count = 0
  /\ exit_code = -1
  /\ store = <<>>
  /\ cmds = <<>>
  /\ out = <<>>

(* ---- PullOrchestrator ---- *)
(* variant: the handler of line 211 catches CalledProcessError only *)
except_Exception_narrow(exc) == exc = "CalledProcessError"

(* except Exception (line 211): every exception class raised here derives from Exception *)
except_Exception(exc) == exc \in {"FileNotFoundError", "CalledProcessError"}

(* variant: line 191 always takes the normalized name *)
select_target_normalized(original_image, normalized) == normalized

(* line 191 *)
select_target(original_image, normalized) ==
  IF Contains(original_image, "/") THEN original_image ELSE normalized

(* variant: the cleanup of lines 201-206 never runs *)
cleanup_needed_never(mirror, target) == FALSE

(* variant: line 201 removes the mirror tag unconditionally *)
cleanup_needed_always(mirror, target) == TRUE

(* line 201 *)
cleanup_needed(mirror, target) == mirror # target

(* variant: failed_count += 1 outside the else branch *)
count_failed_always(n, ok) == n + 1

(* lines 239-242 *)
count_success(n, ok) == IF ok THEN n + 1 ELSE n

count_failed(n, ok) == IF ok THEN n ELSE n + 1

(* variant: exit status decided by success_count *)
sys_exit_code_anysuccess(succeeded, failed) == IF succeeded > 0 THEN 0 ELSE 1

(* line 248 *)
sys_exit_code(succeeded, failed) == IF failed = 0 THEN 0 ELSE 1

Say(msg) == out' = Append(out, [img |-> i, msg |-> msg])

Issue(op, args, proc, res) ==
  /\ cmds' = Append(cmds, [img |-> i, op |-> op, args |-> args, proc |-> proc, res |-> res])
  /\ store' = docker(store, op, args, proc)

(* accelerate_pull returns val to main *)
Return(val, msg) ==
  /\ ret' = val
  /\ pc' = "ret"
  /\ Say(msg)
  /\ UNCHANGED exit_code

(* an exception raised inside the try block of accelerate_pull *)
Raised(exc) ==
  IF except_Exception(exc)
  THEN Return(FALSE, "ERROR Exception occurred")
  ELSE /\ pc' = "crash"
       /\ exit_code' = 1
       /\ Say("Traceback")
       /\ UNCHANGED ret

(* main, lines 218-235 *)
Main ==
  /\ pc = "main"
  /\ IF Len(images) < 1
     THEN /\ pc' = "exit"
          /\ exit_code' = 1
          /\ UNCHANGED i
     ELSE /\ pc' = "loop"
          /\ i' = 1
          /\ UNCHANGED exit_code
  /\ success_count' = 0
  /\ failed_count' = 0
  /\ UNCHANGED <<images, normalized_image, mirror_image, target_image, ret,
                 calls, results, store, cmds, out>>

(* main line 239 calls accelerate_pull(image); steps 1-2, lines 167-179 *)
CallAccelerate ==
  /\ pc = "loop"
  /\ i <= Len(images)
  /\ calls' = Append(calls, images[i])
  /\ normalized_image' = normalize_image_name(images[i])
  /\ mirror_image' = convert_to_mirror_image(normalized_image')
  /\ target_image' = None
  /\ IF ~Truthy(mirror_image')
     THEN Return(FALSE, "ERROR Unsupported image source")
     ELSE /\ pc' = "pull"
          /\ Say("INFO Mirror image")
          /\ UNCHANGED <<ret, exit_code>>
  /\ UNCHANGED <<images, i, results, success_count, failed_count, store, cmds>>

(* variant: a pull that exits non-zero is tried a second time *)
PullStep_retry ==
  /\ pc = "pull"
  /\ \E proc \in ProcOutcomes :
       LET r == pull_image(mirror_image, proc)
       IN /\ Issue("pull", <<mirror_image>>, proc, r)
          /\ IF r.raised # "none" THEN Raised(r.raised)
             ELSE IF r.returncode # 0
                  THEN IF \A n \in 1..Len(cmds) : cmds[n].img # i
                       THEN /\ pc' = "pull"
                            /\ Say("INFO Retrying")
                            /\ UNCHANGED <<ret, exit_code>>
                       ELSE Return(FALSE, "ERROR Pull failed")
             ELSE /\ pc' = "tag"
                  /\ Say("SUCCESS Pull completed")
                  /\ UNCHANGED <<ret, exit_code>>
  /\ UNCHANGED <<images, i, normalized_image, mirror_image, target_image,
                 calls, results, success_count, failed_count>>

(* step 3, lines 181-187 *)
PullStep ==
  /\ pc = "pull"
  /\ \E proc \in ProcOutcomes :
       LET r == pull_image(mirror_image, proc)
       IN /\ Issue("pull", <<mirror_image>>, proc, r)
          /\ IF r.raised # "none" THEN Raised(r.raised)
             ELSE IF r.returncode # 0 THEN Return(FALSE, "ERROR Pull failed")
             ELSE /\ pc' = "tag"
                  /\ Say("SUCCESS Pull completed")
                  /\ UNCHANGED <<ret, exit_code>>
  /\ UNCHANGED <<images, i, normalized_image, mirror_image, target_image,
                 calls, results, success_count, failed_count>>

(* step 4, lines 189-198 *)
TagStep ==
  /\ pc = "tag"
  /\ target_image' = select_target(images[i], normalized_image)
  /\ \E proc \in ProcOutcomes :
       LET r == tag_image(mirror_image, target_image', proc)
       IN /\ Issue("tag", <<mirror_image, target_image'>>, proc, r)
          /\ IF r.raised # "none" THEN Raised(r.raised)
             ELSE /\ Say(IF r.returncode # 0 THEN "WARNING Rename warning"
                                             ELSE "SUCCESS Rename completed")
                  /\ IF cleanup_needed(mirror_image, target_image')
                     THEN pc' = "rmi" /\ UNCHANGED ret
                     ELSE pc' = "ret" /\ ret' = TRUE
                  /\ UNCHANGED exit_code
  /\ UNCHANGED <<images, i, normalized_image, mirror_image,
                 calls, results, success_count, failed_count>>

(* step 5, lines 200-209 *)
CleanupStep ==
  /\ pc = "rmi"
  /\ \E proc \in ProcOutcomes :
       LET r == remove_image(mirror_image, proc)
       IN /\ Issue("rmi", <<mirror_image>>, proc, r)
          /\ IF r.raised # "none" THEN Raised(r.raised)
             ELSE Return(TRUE, IF r.returncode # 0 THEN "WARNING Cleanup warning"
                                                   ELSE "SUCCESS Cleanup completed")
  /\ UNCHANGED <<images, i, normalized_image, mirror_image, target_image,
                 calls, results, success_count, failed_count>>

(* variant: the loop breaks at the first failed image *)
ReturnToLoop_break ==
  /\ pc = "ret"
  /\ results' = Append(results, ret)
  /\ success_count' = IF ret THEN success_count + 1 ELSE success_count
  /\ failed_count' = IF ret THEN failed_count ELSE failed_count + 1
  /\ i' = IF ret THEN i + 1 ELSE Len(images) + 1
  /\ pc' = "loop"
  /\ UNCHANGED <<images, normalized_image, mirror_image, target_image, ret,
                 calls, exit_code, store, cmds, out>>

(* main, lines 239-242: count the result and go on with the next argument *)
ReturnToLoop ==
  /\ pc = "ret"
  /\ results' = Append(results, ret)
  /\ success_count' = count_success(success_count, ret)
  /\ failed_count' = count_failed(failed_count, ret)
  /\ i' = i + 1
  /\ pc' = "loop"
  /\ UNCHANGED <<images, normalized_image, mirror_image, target_image, ret,
                 calls, exit_code, store, cmds, out>>

(* main, lines 244-248 *)
Exit ==
  /\ pc = "loop"
  /\ i > Len(images)
  /\ exit_code' = sys_exit_code(success_count, failed_count)
  /\ pc' = "exit"
  /\ UNCHANGED <<images, i, normalized_image, mirror_image, target_image, ret,
                 calls, results, success_count, failed_count, store, cmds, out>>

Next ==
  \/ Main
  \/ CallAccelerate
  \/ PullStep
  \/ TagStep
  \/ CleanupStep
  \/ ReturnToLoop
  \/ Exit

Spec == Init /\ [][Next]_vars

TypeOK ==
  /\ pc \in {"main", "loop", "pull", "tag", "rmi", "ret", "exit", "crash"}
  /\ i \in 0..(Len(images) + 1)
  /\ exit_code \in {-1, 0, 1}
  /\ Len(results) <= Len(images)

(* ---- vocabulary of the properties ---- *)
Active == pc \in {"pull", "tag", "rmi", "ret"}

Returned(k) == Len(results) >= k

CmdsOf(k, op) == {n \in 1..Len(cmds) : cmds[n].img = k /\ cmds[n].op = op}

ExitZero(n) == cmds[n].proc.exc = "none" /\ cmds[n].proc.code = 0

ExitNonzero(n) == cmds[n].proc.exc = "none" /\ cmds[n].proc.code # 0

NotExecuted(n) == cmds[n].proc.exc # "none"

StepOK(k, op) == \E n \in CmdsOf(k, op) : ExitZero(n)

StepNonzero(k, op) == \E n \in CmdsOf(k, op) : ExitNonzero(n)

StepRaised(k, op) == \E n \in CmdsOf(k, op) : NotExecuted(n)

StepFailed(k, op) == StepNonzero(k, op) \/ StepRaised(k, op)

NSlash(s) == Cardinality({k \in 1..Len(s) : s[k] = "/"})

FirstSegment(s) ==
  IF NSlash(s) = 0 THEN s
  ELSE SubSeq(s, 1, (CHOOSE k \in 1..Len(s) : s[k] = "/" /\ \A m \in 1..(k-1) : s[m] # "/") - 1)

NoDotColon(s) == \A k \in 1..Len(s) : s[k] # "." /\ s[k] # ":"

(* C1 as stated: whenever accelerate returns success, the target name under *)
(* which the original is tagged points at the pulled content and, if the    *)
(* mirror differs from the target, no mirror-named tag remains.             *)
C1_Original ==
  (pc = "ret" /\ ret) =>
     /\ target_image \in DOMAIN store
     /\ store[target_image] = mirror_image
     /\ (mirror_image # target_image => mirror_image \notin DOMAIN store)

(* C1 amended: whenever accelerate returns success and the tag command      *)
(* exited zero, the target name points at the pulled content; if moreover   *)
(* the mirror differs from the target and the rmi command exited zero, no   *)
(* mirror-named tag remains.                                                *)
C1_SuccessPostcondition ==
  (pc = "ret" /\ ret) =>
     /\ StepOK(i, "tag") =>
          (target_image \in DOMAIN store /\ store[target_image] = mirror_image)
     /\ (mirror_image # target_image /\ StepOK(i, "rmi")) =>
          mirror_image \notin DOMAIN store

C1_Witness ==
  /\ pc = "ret" /\ ret
  /\ StepOK(i, "tag") /\ StepOK(i, "rmi")
  /\ mirror_image # target_image
  /\ target_image \in DOMAIN store
  /\ mirror_image \notin DOMAIN store

C3_PullFailureStops ==
  \A k \in 1..Len(images) :
     StepNonzero(k, "pull") =>
        /\ CmdsOf(k, "tag") = {}
        /\ CmdsOf(k, "rmi") = {}
        /\ (i = k => pc = "ret" /\ ~ret)
        /\ (Returned(k) => ~results[k])

C3_Witness ==
  /\ pc = "exit"
  /\ Len(images) = 2
  /\ StepNonzero(1, "pull")
  /\ ~results[1]
  /\ StepOK(2, "pull")

C5_Claim ==
  (pc = "ret" /\ StepOK(i, "pull") /\ StepFailed(i, "tag")) =>
     mirror_image \in DOMAIN store

(* C6: arguments are passed to accelerate one at a time in argument order,  *)
(* each exactly once whatever failed before, and the commands of one image  *)
(* all precede the commands of the next.                                    *)
C6_SequentialBatch ==
  /\ Len(calls) <= Len(images)
  /\ calls = SubSeq(images, 1, Len(calls))
  /\ Len(calls) - Len(results) \in {0, 1}
  /\ \A n \in 1..Len(cmds) : cmds[n].img >= 1 /\ cmds[n].img <= Len(calls)
  /\ \A m, n \in 1..Len(cmds) : m < n => cmds[m].img <= cmds[n].img
  /\ (pc = "exit" /\ Len(images) >= 1) => (calls = images /\ Len(results) = Len(images))

C6_Witness ==
  /\ pc = "exit"
  /\ Len(images) = 2
  /\ calls = images
  /\ ~results[1]
  /\ results[2]
  /\ CmdsOf(2, "rmi") # {}

(* C7: at the end of the batch the success count is the number of images    *)
(* for which accelerate returned success, the failed count the number for   *)
(* which it returned failure, and they sum to the number of arguments.      *)
C7_SummaryCounts ==
  (pc = "exit" /\ Len(images) >= 1) =>
     /\ success_count = Cardinality({k \in 1..Len(results) : results[k]})
     /\ failed_count = Cardinality({k \in 1..Len(results) : ~results[k]})
     /\ success_count + failed_count = Len(images)
     /\ (failed_count >= 1 => exit_code # 0)

C7_Witness ==
  /\ pc = "exit"
  /\ Len(images) = 2
  /\ success_count = 1
  /\ failed_count = 1
  /\ exit_code = 1

(* C8: when the runtime cannot be executed at any step of an image, nothing *)
(* unwinds past that image: the program does not crash, no further command  *)
(* is issued for the image, accelerate returns failure with an error        *)
(* message, and the batch goes on to the end.                               *)
C8_ErrorsContained ==
  /\ pc # "crash"
  /\ \A n \in 1..Len(cmds) :
        NotExecuted(n) =>
           /\ \A m \in 1..Len(cmds) : cmds[m].img = cmds[n].img => m <= n
           /\ (i = cmds[n].img => pc = "ret" /\ ~ret)
           /\ (Returned(cmds[n].img) => ~results[cmds[n].img])
           /\ \E m \in 1..Len(out) :
                 out[m] = [img |-> cmds[n].img, msg |-> "ERROR Exception occurred"]
  /\ (pc = "exit" /\ Len(images) >= 1) => Len(results) = Len(images)

C8_Witness ==
  /\ pc = "exit"
  /\ Len(images) = 2
  /\ StepRaised(1, "pull")
  /\ ~results[1]
  /\ results[2]

(* C9: normalize returns docker.io/library/<raw> when raw has no '/',       *)
(* docker.io/<raw> when raw has exactly one '/' and nothing before it is a  *)
(* '.' or a ':', and raw unchanged otherwise.                               *)
C9_NormalizeRules ==
  Active =>
     LET raw == images[i]
     IN normalized_image =
          IF NSlash(raw) = 0 THEN DockerIoLibrary \o raw
          ELSE IF NSlash(raw) = 1 /\ NoDotColon(FirstSegment(raw)) THEN DockerIoSlash \o raw
          ELSE raw

C9_Witness ==
  /\ pc = "pull"
  /\ NSlash(images[i]) = 1
  /\ NoDotColon(FirstSegment(images[i]))
  /\ normalized_image = DockerIoSlash \o images[i]

(* C10 as stated: every reference whose first path segment has neither a    *)
(* dot nor a colon is normalized to a reference beginning with docker.io/.  *)
C10_Original ==
  (Active /\ NoDotColon(FirstSegment(images[i]))) =>
     startswith(normalized_image, DockerIoSlash)

(* C10 amended: a reference of at most two path segments whose first        *)
(* segment has neither a dot nor a colon is normalized to a reference       *)
(* beginning with docker.io/; one of three or more segments is unchanged.   *)
C10_DefaultRegistry ==
  Active =>
     /\ (NoDotColon(FirstSegment(images[i])) /\ NSlash(images[i]) <= 1)
           => startswith(normalized_image, DockerIoSlash)
     /\ NSlash(images[i]) >= 2 => normalized_image = images[i]

C10_Witness ==
  /\ pc = "pull"
  /\ NSlash(images[i]) >= 2
  /\ NoDotColon(FirstSegment(images[i]))
  /\ normalized_image = images[i]
  /\ ~startswith(normalized_image, DockerIoSlash)

(* the part of a reference after its first '/' (empty when there is none) *)
Rest(s) ==
  IF NSlash(s) = 0 THEN <<>>
  ELSE SubSeq(s, Len(FirstSegment(s)) + 2, Len(s))

KnownRegistry(s) == NSlash(s) >= 1 /\ FirstSegment(s) \in DOMAIN REGISTRY_MIRRORS

(* C11 as stated: for a reference on a registry of the table, the mirror    *)
(* reference is the registry's mirror prefix followed by '/' and the rest.  *)
C11_Original ==
  (Active /\ KnownRegistry(normalized_image)) =>
     mirror_image =
        REGISTRY_MIRRORS[FirstSegment(normalized_image)] \o <<"/">> \o Rest(normalized_image)

(* C11 amended: for a reference on a registry of the table, the mirror      *)
(* reference begins with the registry's mirror prefix: it is the prefix     *)
(* followed by '/' and the rest when the rest is not empty, and the bare    *)
(* prefix when the rest is empty.                                           *)
C11_KnownRegistryMirror ==
  (Active /\ KnownRegistry(normalized_image)) =>
     LET prefix == REGISTRY_MIRRORS[FirstSegment(normalized_image)]
         rest == Rest(normalized_image)
     IN /\ startswith(mirror_image, prefix)
        /\ rest # <<>> => mirror_image = prefix \o <<"/">> \o rest
        /\ rest = <<>> => mirror_image = prefix

C11_Witness ==
  /\ pc = "pull"
  /\ images[i] = <<"r","e","d","i","s",":","7">>
  /\ normalized_image = <<"d","o","c","k","e","r",".","i","o","/","l","i","b","r","a","r","y","/","r","e","d","i","s",":","7">>
  /\ mirror_image = <<"m",".","d","a","o","c","l","o","u","d",".","i","o","/","d","o","c","k","e","r",".","i","o","/","l","i","b","r","a","r","y","/","r","e","d","i","s",":","7">>

EmptyRest(s) == NSlash(s) >= 1 /\ Rest(s) = <<>>

(* C12 as stated: resolution returns absent for every normalized reference  *)
(* whose part after the first '/' is empty.                                 *)
C12_Original ==
  (Active /\ EmptyRest(normalized_image)) => mirror_image = None

(* C12 amended: for a normalized reference whose part after the first '/'   *)
(* is empty, resolution does not fail: it returns the bare mirror prefix of *)
(* the registry when the registry is in the table, the reference unchanged  *)
(* when it begins with m.daocloud.io/, and m.daocloud.io/ followed by the   *)
(* reference otherwise.                                                     *)
C12_EmptyRestResolves ==
  (Active /\ EmptyRest(normalized_image)) =>
     /\ mirror_image # None
     /\ mirror_image =
          IF KnownRegistry(normalized_image)
          THEN REGISTRY_MIRRORS[FirstSegment(normalized_image)]
          ELSE IF startswith(normalized_image, DaoCloudPrefix) THEN normalized_image
          ELSE DaoCloudPrefix \o normalized_image

C12_Witness ==
  /\ pc = "pull"
  /\ images[i] = <<"d","o","c","k","e","r",".","i","o","/">>
  /\ EmptyRest(normalized_image)
  /\ mirror_image = <<"m",".","d","a","o","c","l","o","u","d",".","i","o","/","d","o","c","k","e","r",".","i","o">>

(* C13: resolution is idempotent on its own output: re-normalizing and      *)
(* resolving a mirror reference gives the same mirror reference, and a      *)
(* reference that already begins with m.daocloud.io/ is returned unchanged. *)
C13_MirrorIdempotent ==
  (Active /\ mirror_image # None) =>
     /\ convert_to_mirror_image(normalize_image_name(mirror_image)) = mirror_image
     /\ startswith(normalized_image, DaoCloudPrefix) => mirror_image = normalized_image

C13_Witness ==
  /\ pc = "pull"
  /\ images[i] = <<"g","c","r",".","i","o","/","p","a","u","s","e",":","3",".","1">>
  /\ mirror_image = <<"m",".","d","a","o","c","l","o","u","d",".","i","o","/","g","c","r",".","i","o","/","p","a","u","s","e",":","3",".","1">>
  /\ convert_to_mirror_image(normalize_image_name(mirror_image)) = mirror_image

(* C14: a normalized reference whose registry is not in the table and that  *)
(* does not begin with m.daocloud.io/ resolves to m.daocloud.io/ followed   *)
(* by the whole normalized reference.                                       *)
C14_UnknownRegistryFallback ==
  (Active /\ NSlash(normalized_image) >= 1
          /\ ~KnownRegistry(normalized_image)
          /\ ~startswith(normalized_image, DaoCloudPrefix)) =>
     mirror_image = DaoCloudPrefix \o normalized_image

C14_Witness ==
  /\ pc = "pull"
  /\ images[i] = <<"e","x","a","m","p","l","e",".","c","o","m","/","f","o","o",":","1">>
  /\ normalized_image = images[i]
  /\ mirror_image = <<"m",".","d","a","o","c","l","o","u","d",".","i","o","/","e","x","a","m","p","l","e",".","c","o","m","/","f","o","o",":","1">>

(* the target and mirror references of an argument, as the claims state them *)
TargetOf(raw) == IF NSlash(raw) >= 1 THEN raw ELSE DockerIoLibrary \o raw

MirrorOf(raw) == convert_to_mirror_image(normalize_image_name(raw))

(* C15: after a successful pull the tag command is issued with the pulled   *)
(* mirror reference as source and, as destination, the original argument    *)
(* when it contains a '/', its normalized form otherwise.                   *)
C15_TagArguments ==
  /\ \A n \in 1..Len(cmds) :
        cmds[n].op = "tag" =>
           /\ \E m \in CmdsOf(cmds[n].img, "pull") :
                 m < n /\ ExitZero(m) /\ cmds[m].args[1] = cmds[n].args[1]
           /\ cmds[n].args = <<MirrorOf(images[cmds[n].img]), TargetOf(images[cmds[n].img])>>
  /\ \A k \in 1..Len(images) :
        (Returned(k) /\ StepOK(k, "pull")) => CmdsOf(k, "tag") # {}

C15_Witness ==
  \E n \in 1..Len(cmds) :
     /\ cmds[n].op = "tag"
     /\ images[cmds[n].img] = <<"p","y","t","h","o","n",":","3",".","9","-","s","l","i","m">>
     /\ cmds[n].args = << <<"m",".","d","a","o","c","l","o","u","d",".","i","o","/","d","o","c","k","e","r",".","i","o","/","l","i","b","r","a","r","y","/","p","y","t","h","o","n",":","3",".","9","-","s","l","i","m">>,
                          <<"d","o","c","k","e","r",".","i","o","/","l","i","b","r","a","r","y","/","p","y","t","h","o","n",":","3",".","9","-","s","l","i","m">> >>

C17_Original ==
  \A n \in 1..Len(cmds) :
     ExitNonzero(n) =>
        IF cmds[n].op \in {"pull", "tag"}
        THEN cmds[n].res.raised # "none"
        ELSE cmds[n].res = [raised |-> "none", returncode |-> cmds[n].proc.code]

(* C17 amended: run returns the exit code of every process that could be    *)
(* executed, whether failOnNonzero is true or false: a non-zero exit is     *)
(* never surfaced as a propagated error; only a process that cannot be      *)
(* started propagates an error.                                             *)
C17_RunReturnsExitCode ==
  \A n \in 1..Len(cmds) :
     /\ ~NotExecuted(n) =>
           cmds[n].res = [raised |-> "none", returncode |-> cmds[n].proc.code]
     /\ NotExecuted(n) => cmds[n].res.raised = cmds[n].proc.exc

C17_Witness ==
  \E n \in 1..Len(cmds) :
     /\ cmds[n].op = "tag"
     /\ ExitNonzero(n)
     /\ cmds[n].res = [raised |-> "none", returncode |-> 1]

(* the runtime commands issued for argument k, in the order of issue *)
OpsOf(k) ==
  LET ForK(cmd) == cmd.img = k
      sel == SelectSeq(cmds, ForK)
  IN [n \in 1..Len(sel) |-> sel[n].op]

(* C18: nothing is retried: the commands issued for an image are a prefix   *)
(* of pull, tag, rmi, each at most once, and tag only after a pull that     *)
(* exited zero.                                                             *)
C18_NoRetry ==
  \A k \in 1..Len(images) :
     /\ Len(OpsOf(k)) <= 3
     /\ OpsOf(k) = SubSeq(<<"pull", "tag", "rmi">>, 1, Len(OpsOf(k)))
     /\ \A op \in {"pull", "tag", "rmi"} : Cardinality(CmdsOf(k, op)) <= 1
     /\ CmdsOf(k, "tag") # {} => StepOK(k, "pull")

C18_Witness ==
  /\ pc = "exit"
  /\ Len(images) = 2
  /\ OpsOf(1) = <<"pull">>
  /\ StepNonzero(1, "pull")
  /\ OpsOf(2) = <<"pull", "tag", "rmi">>
  /\ StepNonzero(2, "tag")

(* C19: for every argument, the empty string and arguments ending in '/'    *)
(* included, the normalized reference contains a '/', the mirror reference  *)
(* is defined and begins with m.daocloud.io/; accelerate never reports an   *)
(* unsupported source, always issues a pull, and every pull is issued       *)
(* against the accelerator host.                                            *)
C19_AlwaysPullsFromMirror ==
  /\ Active =>
        /\ NSlash(normalized_image) >= 1
        /\ mirror_image # None
        /\ startswith(mirror_image, DaoCloudPrefix)
  /\ \A m \in 1..Len(out) : out[m].msg # "ERROR Unsupported image source"
  /\ \A k \in 1..Len(images) :
        (Returned(k) \/ (k = i /\ pc = "ret")) => CmdsOf(k, "pull") # {}
  /\ \A n \in 1..Len(cmds) :
        cmds[n].op = "pull" => startswith(cmds[n].args[1], DaoCloudPrefix)

C19_Witness ==
  /\ pc = "ret"
  /\ images[i] = <<"a", ".", "a", "/">>
  /\ mirror_image = DaoCloudPrefix \o <<"a", ".", "a", "/">>
  /\ \E n \in CmdsOf(i, "pull") : cmds[n].args = <<mirror_image>>
====
